---- MODULE Spec2Model ----
(***************************************************************************)
(* Model of the paging simulator: the four page-replacement simulators of  *)
(* secondapp.py (FIFO, LRU, OPTIMAL, LFU; app.py holds the same FIFO and   *)
(* LRU without the log) and the compare_all handler that runs all four.    *)
(*                                                                         *)
(* One simulator invocation is the variables pages .. log below (the       *)
(* function's parameters and locals); one loop iteration is one action.    *)
(***************************************************************************)
EXTENDS Integers, Sequences, FiniteSets

\* ------------------------------------------------------------------ bounds
MaxLen == 5        \* longest enumerated reference string
NumPages == 3      \* enumerated page identifiers are 0 .. NumPages-1
MaxFrames == 3     \* largest enumerated frame count
GuiMaxLen == 4     \* most words typed into the reference entry
RepMaxLen == 2     \* longest reference string of the repeated-call sessions
MaxLater == 2      \* calls counted after the first completed one
WinMaxLen == 1     \* most words of an enumerated text of the window's reference entry

Algorithms == {"FIFO", "LRU", "OPTIMAL", "LFU"}

RECURSIVE SeqsUpTo(_, _)
SeqsUpTo(S, n) ==
    IF n = 0 THEN {<<>>}
    ELSE LET shorter == SeqsUpTo(S, n - 1)
         IN  shorter \cup {Append(s, x) : s \in {t \in shorter : Len(t) = n - 1}, x \in S}

\* The handcrafted reference strings of the scenarios.
Scenario1Pages == <<7, 0, 1, 2, 0, 3, 0, 4>>
Scenario3Pages == <<1, 2, 2, 3, 1, 4>>
TiePages == <<1, 2, 3, 4, 5>>

RefStrings == SeqsUpTo(0 .. (NumPages - 1), MaxLen) \cup {Scenario1Pages, Scenario3Pages, TiePages}
FrameCounts == (0 - 1) .. MaxFrames
RepRefStrings == SeqsUpTo({0, 1}, RepMaxLen)
RepFrameCounts == {1, 2}

\* ------------------------------------------------------------------ state
VARIABLES
    algo,         \* which simulator function is executing / has executed
    outcome,      \* "none" | "running" | "returned" | "raised"
    exc,          \* the exception type when outcome = "raised"
    pages,        \* parameter: the reference string
    frame_count,  \* parameter
    i,            \* number of accesses already processed (the loop index)
    frames,       \* the working frame list
    queue_index,  \* FIFO cursor
    recent,       \* LRU dict page -> index of latest access
    freq,         \* LFU dict page -> frequency
    time,         \* LFU dict page -> index of latest access
    faults,
    hits,
    steps,        \* list of (page, list object, status)
    log,          \* list of log lines
    first,        \* history: the first completed call of the session
    frame_entry,  \* GUI: text of the frame-count entry
    ref_entry,    \* GUI: text of the reference-string entry
    handler,      \* GUI: the handler in progress, "idle" if none
    results,      \* GUI: compare_all's locals, algorithm -> returned tuple
    tree,         \* GUI: rows of the main table
    log_text,     \* GUI: lines of the log panel
    compare_tree, \* GUI: rows of the comparison table
    algo_label,
    result_label,
    errors_shown  \* GUI: whether messagebox.showerror was called since the
                  \*      entries were last edited

simVars == <<algo, outcome, exc, pages, frame_count, i, frames, queue_index,
             recent, freq, time, faults, hits, steps, log>>
guiVars == <<frame_entry, ref_entry, handler, results, tree, log_text,
             compare_tree, algo_label, result_label, errors_shown>>
vars == <<simVars, first, guiVars>>

\* ------------------------------------------------------- Python primitives
\* x in lst
In(x, lst) == \E j \in 1 .. Len(lst) : lst[j] = x

\* lst.index(x), 1-based here; only used when x is in lst
ListIndex(lst, x) == CHOOSE j \in 1 .. Len(lst) : lst[j] = x /\ \A k \in 1 .. (j - 1) : lst[k] # x

\* lst[idx] = x
ListSetShift(lst, idx, x) == SubSeq(lst, 1, idx - 1) \o SubSeq(lst, idx + 1, Len(lst)) \o <<x>>
ListSet(lst, idx, x) == [lst EXCEPT ![idx] = x]

\* dict operations
DictSet(d, k, v) == [x \in (DOMAIN d) \cup {k} |-> IF x = k THEN v ELSE d[x]]
DictDelKept(d, k) == d
DictDel(d, k) == [x \in (DOMAIN d) \ {k} |-> d[x]]
DictGet(d, k, default) == IF k \in DOMAIN d THEN d[k] ELSE default

\* Python's "<" on two tuples of integers of the same length
RECURSIVE TupleLess(_, _)
TupleLess(a, b) ==
    IF a = <<>> THEN FALSE
    ELSE IF Head(a) # Head(b) THEN Head(a) < Head(b)
    ELSE TupleLess(Tail(a), Tail(b))

\* min(lst, key=...), given keys[k] = key(lst[k]): the position of the
\* first element no other element's key is strictly below
PyMinIndex(keys) ==
    CHOOSE j \in 1 .. Len(keys) :
        /\ \A k \in 1 .. Len(keys) : ~TupleLess(keys[k], keys[j])
        /\ \A k \in 1 .. (j - 1) : \E m \in 1 .. Len(keys) : TupleLess(keys[m], keys[k])

\* A list object stored in a step tuple: frames.copy() is a fresh list that
\* nothing else references; a stored reference to the working list would
\* show whatever the working list holds now.
ListAlias(lst) == [shared |-> TRUE, items |-> <<>>]
ListCopy(lst) == [shared |-> FALSE, items |-> lst]
Items(obj) == IF obj.shared THEN frames ELSE obj.items

\* The trace as a caller reads it: every step with its list dereferenced.
Snapshot(j) == Items(steps[j][2])
Trace == [j \in 1 .. Len(steps) |-> <<steps[j][1], Snapshot(j), steps[j][3]>>]

\* One log line: the values the f-string interpolates and its fixed text.
LogLine(step, page, status, detail, replaced) ==
    [step |-> step, page |-> page, status |-> status, detail |-> detail, replaced |-> replaced]

\* ------------------------------------------------------ simulator: entry
\* frames = []
NewFramesKept == frames
NewFrames == <<>>

\* A call of simulator a: parameters bound, locals initialised.
simulator_call(a, p, fc) ==
    /\ algo' = a
    /\ outcome' = "running"
    /\ exc' = "none"
    /\ pages' = p
    /\ frame_count' = fc
    /\ i' = 0
    /\ frames' = NewFrames
    /\ queue_index' = 0
    /\ recent' = <<>>
    /\ freq' = <<>>
    /\ time' = <<>>
    /\ faults' = 0
    /\ hits' = 0
    /\ steps' = <<>>
    /\ log' = <<>>

\* The shared shape of one loop iteration's bookkeeping.
Running(a) ==
    /\ algo = a
    /\ outcome = "running"
    /\ i < Len(pages)
    /\ UNCHANGED <<first, guiVars>>

\* hits += 1; status = "HIT"; log.append(...)
HitUncounted(page, detail) ==
    /\ hits' = hits
    /\ log' = Append(log, LogLine(i + 1, page, "HIT", detail, <<>>))
    /\ UNCHANGED <<faults, frames>>
HitMovesToEnd(page, detail) ==
    /\ hits' = hits + 1
    /\ log' = Append(log, LogLine(i + 1, page, "HIT", detail, <<>>))
    /\ frames' = LET idx == ListIndex(frames, page)
                 IN  SubSeq(frames, 1, idx - 1) \o SubSeq(frames, idx + 1, Len(frames)) \o <<page>>
    /\ UNCHANGED faults
Hit(page, detail) ==
    /\ hits' = hits + 1
    /\ log' = Append(log, LogLine(i + 1, page, "HIT", detail, <<>>))
    /\ UNCHANGED <<faults, frames>>

\* An exception leaves the iteration: e is its type, h and f are the
\* counters as the statements before the raising one left them.
Raise(e, h, f) ==
    /\ outcome' = "raised"
    /\ exc' = e
    /\ hits' = h
    /\ faults' = f
    /\ UNCHANGED <<algo, pages, frame_count, i, frames, queue_index, recent, freq, time,
                   steps, log>>

\* steps.append((page, frames.copy(), status))
SnapshotOfShared(lst) == ListAlias(lst)
SnapshotOf(lst) == ListCopy(lst)

AppendStepOnFault(page, status) ==
    /\ steps' = IF status = "HIT" THEN steps
                ELSE Append(steps, <<page, SnapshotOf(frames'), status>>)
    /\ i' = i + 1
    /\ UNCHANGED <<algo, outcome, exc, pages, frame_count>>
AppendStep(page, status) ==
    /\ steps' = Append(steps, <<page, SnapshotOf(frames'), status>>)
    /\ i' = i + 1
    /\ UNCHANGED <<algo, outcome, exc, pages, frame_count>>

\* if len(frames) < frame_count
HasRoomOrFull(lst, fc) == Len(lst) <= fc
HasRoom(lst, fc) == Len(lst) < fc

\* if page in frames
IsResidentInverted(page, lst) == ~In(page, lst)
IsResidentFirstSlot(page, lst) == lst # <<>> /\ lst[1] = page
IsResident(page, lst) == In(page, lst)

\* ------------------------------------------------------------------ FIFO
\* queue_index = (queue_index + 1) % frame_count
fifo_stuck(q, fc) == q
fifo_advance(q, fc) == (q + 1) % fc

fifo_page_replacement ==
    /\ Running("FIFO")
    /\ LET page == pages[i + 1]
       IN  IF IsResident(page, frames)
           THEN /\ Hit(page, "already in memory")
                /\ UNCHANGED queue_index
                /\ AppendStep(page, "HIT")
                /\ UNCHANGED <<recent, freq, time>>
           ELSE IF HasRoom(frames, frame_count)
           THEN /\ faults' = faults + 1
                /\ frames' = Append(frames, page)
                /\ log' = Append(log, LogLine(i + 1, page, "FAULT", "loaded into empty frame", <<>>))
                /\ UNCHANGED <<hits, queue_index>>
                /\ AppendStep(page, "FAULT")
                /\ UNCHANGED <<recent, freq, time>>
           ELSE IF queue_index >= Len(frames)
           THEN Raise("IndexError", hits, faults + 1)
           ELSE LET replaced == frames[queue_index + 1]
                IN  /\ faults' = faults + 1
                    /\ frames' = ListSet(frames, queue_index + 1, page)
                    /\ log' = Append(log, LogLine(i + 1, page, "FAULT", "replaced using FIFO", <<replaced>>))
                    /\ queue_index' = fifo_advance(queue_index, frame_count)
                    /\ UNCHANGED hits
                    /\ AppendStep(page, "FAULT")
                    /\ UNCHANGED <<recent, freq, time>>

\* ------------------------------------------------------------------- LRU
\* key=lambda p: recent.get(p, -1)
lru_key_mru(p) == <<0 - DictGet(recent, p, 0 - 1)>>
lru_key(p) == <<DictGet(recent, p, 0 - 1)>>

lru_page_replacement ==
    /\ Running("LRU")
    /\ LET page == pages[i + 1]
       IN  IF IsResident(page, frames)
           THEN /\ Hit(page, "already in memory")
                /\ recent' = DictSet(recent, page, i)
                /\ AppendStep(page, "HIT")
                /\ UNCHANGED <<queue_index, freq, time>>
           ELSE IF HasRoom(frames, frame_count)
           THEN /\ faults' = faults + 1
                /\ frames' = Append(frames, page)
                /\ log' = Append(log, LogLine(i + 1, page, "FAULT", "loaded into empty frame", <<>>))
                /\ recent' = DictSet(recent, page, i)
                /\ UNCHANGED hits
                /\ AppendStep(page, "FAULT")
                /\ UNCHANGED <<queue_index, freq, time>>
           ELSE IF Len(frames) = 0
           THEN Raise("ValueError", hits, faults + 1)
           ELSE LET lru_page == frames[PyMinIndex([k \in 1 .. Len(frames) |-> lru_key(frames[k])])]
                    idx == ListIndex(frames, lru_page)
                IN  /\ faults' = faults + 1
                    /\ frames' = ListSet(frames, idx, page)
                    /\ log' = Append(log, LogLine(i + 1, page, "FAULT", "replaced using LRU", <<lru_page>>))
                    /\ recent' = DictSet(recent, page, i)
                    /\ UNCHANGED hits
                    /\ AppendStep(page, "FAULT")
                    /\ UNCHANGED <<queue_index, freq, time>>

\* --------------------------------------------------------------- OPTIMAL
\* float('inf') and the integers under Python's ">"
Infinity == [inf |-> TRUE, n |-> 0]
Finite(n) == [inf |-> FALSE, n |-> n]
Greater(a, b) == IF a.inf THEN ~b.inf ELSE (~b.inf /\ a.n > b.n)

\* future.index(f) if f in future else float('inf')
next_use(f, future) ==
    IF In(f, future) THEN Finite(ListIndex(future, f) - 1) ELSE Infinity

\* if next_use > farthest_index
optimal_farther_or_equal(nu, farthest_index) == ~Greater(farthest_index, nu)
optimal_farther(nu, farthest_index) == Greater(nu, farthest_index)

\* for f in frames: ... ; the result is replace_page, <<>> standing for None
RECURSIVE optimal_scan(_, _, _, _, _)
optimal_scan(lst, k, future, farthest_index, replace_page) ==
    IF k > Len(lst) THEN replace_page
    ELSE LET f == lst[k]
             nu == next_use(f, future)
         IN  IF optimal_farther(nu, farthest_index)
             THEN optimal_scan(lst, k + 1, future, nu, <<f>>)
             ELSE optimal_scan(lst, k + 1, future, farthest_index, replace_page)

\* future = pages[i + 1:]
FutureWhole(p, idx) == p
Future(p, idx) == SubSeq(p, idx + 2, Len(p))

optimal_page_replacement ==
    /\ Running("OPTIMAL")
    /\ LET page == pages[i + 1]
       IN  IF IsResident(page, frames)
           THEN /\ Hit(page, "already in memory")
                /\ AppendStep(page, "HIT")
                /\ UNCHANGED <<queue_index, recent, freq, time>>
           ELSE IF HasRoom(frames, frame_count)
           THEN /\ faults' = faults + 1
                /\ frames' = Append(frames, page)
                /\ log' = Append(log, LogLine(i + 1, page, "FAULT", "loaded into empty frame", <<>>))
                /\ UNCHANGED hits
                /\ AppendStep(page, "FAULT")
                /\ UNCHANGED <<queue_index, recent, freq, time>>
           ELSE LET future == Future(pages, i)
                    replace_page == optimal_scan(frames, 1, future, Finite(0 - 1), <<>>)
                IN  IF replace_page = <<>>
                    THEN Raise("ValueError", hits, faults + 1)
                    ELSE LET idx == ListIndex(frames, replace_page[1])
                         IN  /\ faults' = faults + 1
                             /\ frames' = ListSet(frames, idx, page)
                             /\ log' = Append(log, LogLine(i + 1, page, "FAULT", "replaced using OPTIMAL", replace_page))
                             /\ UNCHANGED hits
                             /\ AppendStep(page, "FAULT")
                             /\ UNCHANGED <<queue_index, recent, freq, time>>

\* ------------------------------------------------------------------- LFU
\* key=lambda p: (freq[p], time[p])
lfu_key_time(p) == <<time[p]>>
lfu_key(p) == <<freq[p], time[p]>>

lfu_page_replacement ==
    /\ Running("LFU")
    /\ LET page == pages[i + 1]
       IN  IF IsResident(page, frames) /\ page \notin DOMAIN freq
           THEN Raise("KeyError", hits + 1, faults)
           ELSE IF IsResident(page, frames)
           THEN /\ Hit(page, "frequency increased")
                /\ freq' = DictSet(freq, page, freq[page] + 1)
                /\ time' = DictSet(time, page, i)
                /\ AppendStep(page, "HIT")
                /\ UNCHANGED <<queue_index, recent>>
           ELSE IF HasRoom(frames, frame_count)
           THEN /\ faults' = faults + 1
                /\ frames' = Append(frames, page)
                /\ freq' = DictSet(freq, page, 1)
                /\ time' = DictSet(time, page, i)
                /\ log' = Append(log, LogLine(i + 1, page, "FAULT", "loaded into empty frame", <<>>))
                /\ UNCHANGED hits
                /\ AppendStep(page, "FAULT")
                /\ UNCHANGED <<queue_index, recent>>
           ELSE IF Len(frames) = 0
           THEN Raise("ValueError", hits, faults + 1)
           ELSE IF \E k \in 1 .. Len(frames) : frames[k] \notin (DOMAIN freq) \cap (DOMAIN time)
           THEN Raise("KeyError", hits, faults + 1)
           ELSE LET victim == frames[PyMinIndex([k \in 1 .. Len(frames) |-> lfu_key(frames[k])])]
                    idx == ListIndex(frames, victim)
                IN  /\ faults' = faults + 1
                    /\ log' = Append(log, LogLine(i + 1, page, "FAULT", "replaced using LFU", <<victim>>))
                    /\ frames' = ListSet(frames, idx, page)
                    /\ freq' = DictSet(DictDel(freq, victim), page, 1)
                    /\ time' = DictSet(DictDel(time, victim), page, i)
                    /\ UNCHANGED hits
                    /\ AppendStep(page, "FAULT")
                    /\ UNCHANGED <<queue_index, recent>>

\* ----------------------------------------------------- simulator: return
\* The returned tuple (steps, faults, hits, log) as its caller reads it.
Returned == [steps |-> Trace, faults |-> faults, hits |-> hits, log |-> log]

\* return steps, faults, hits, log
simulator_return ==
    /\ outcome = "running"
    /\ i = Len(pages)
    /\ outcome' = "returned"
    /\ first' = IF first.set = "empty"
                THEN [set |-> "done", algo |-> algo, pages |-> pages,
                      frame_count |-> frame_count, ret |-> Returned, later |-> 0]
                ELSE first
    /\ UNCHANGED <<algo, exc, pages, frame_count, i, frames, queue_index, recent, freq,
                   time, faults, hits, steps, log, guiVars>>

\* ------------------------------------------------------- text of entries
\* A string is a sequence of one-character strings.
Digits == <<"0", "1", "2", "3", "4", "5", "6", "7", "8", "9">>
IsDigit(c) == \E d \in 1 .. 10 : Digits[d] = c
DigitValue(c) == (CHOOSE d \in 1 .. 10 : Digits[d] = c) - 1

\* str.strip()
RECURSIVE lstrip(_)
lstrip(s) == IF s # <<>> /\ Head(s) = " " THEN lstrip(Tail(s)) ELSE s
RECURSIVE rstrip(_)
rstrip(s) == IF s # <<>> /\ s[Len(s)] = " " THEN rstrip(SubSeq(s, 1, Len(s) - 1)) ELSE s
strip(s) == rstrip(lstrip(s))

\* str.split(): the maximal runs of non-blank characters
RECURSIVE split_from(_, _, _)
split_from(s, word, words) ==
    IF s = <<>> THEN (IF word = <<>> THEN words ELSE Append(words, word))
    ELSE IF Head(s) = " "
         THEN split_from(Tail(s), <<>>, IF word = <<>> THEN words ELSE Append(words, word))
         ELSE split_from(Tail(s), Append(word, Head(s)), words)
split(s) == split_from(s, <<>>, <<>>)

\* int(text): blanks around, an optional sign, one or more digits;
\* anything else raises ValueError (ok = FALSE)
RECURSIVE digits_value(_, _)
digits_value(s, acc) ==
    IF s = <<>> THEN acc ELSE digits_value(Tail(s), acc * 10 + DigitValue(Head(s)))
int(text) ==
    LET t == strip(text)
        signed == t # <<>> /\ Head(t) \in {"-", "+"}
        body == IF signed THEN Tail(t) ELSE t
    IN  IF body = <<>> \/ \E k \in 1 .. Len(body) : ~IsDigit(body[k])
        THEN [ok |-> FALSE, value |-> 0]
        ELSE [ok |-> TRUE,
              value |-> IF signed /\ Head(t) = "-" THEN 0 - digits_value(body, 0)
                        ELSE digits_value(body, 0)]

\* list(map(int, words)); ok = FALSE when some int() raises
int_list(words) ==
    [ok |-> \A k \in 1 .. Len(words) : int(words[k]).ok,
     value |-> [k \in 1 .. Len(words) |-> int(words[k]).value]]

\* parse_input() reading frame_text and ref_text from the two entries:
\* (pages, frame_count), or (None, None) after showing the error box when
\* anything in the try block raised
parse_input_zero(frame_text, ref_text) ==
    LET fc == int(strip(frame_text))
        ps == int_list(split(strip(ref_text)))
    IN  IF ~fc.ok \/ fc.value < 0 \/ ~ps.ok \/ Len(ps.value) = 0
        THEN [ok |-> FALSE, pages |-> <<>>, frame_count |-> 0]
        ELSE [ok |-> TRUE, pages |-> ps.value, frame_count |-> fc.value]
parse_input(frame_text, ref_text) ==
    LET fc == int(strip(frame_text))
        ps == int_list(split(strip(ref_text)))
    IN  IF ~fc.ok \/ fc.value <= 0 \/ ~ps.ok \/ Len(ps.value) = 0
        THEN [ok |-> FALSE, pages |-> <<>>, frame_count |-> 0]
        ELSE [ok |-> TRUE, pages |-> ps.value, frame_count |-> fc.value]

\* ---------------------------------------------------------------- widgets
Label(text, args) == [text |-> text, args |-> args]

\* (hits / total) * 100 shown by f"{...:.2f}": the value in hundredths
hit_ratio(h, total) == (2 * 10000 * h + total) \div (2 * total)

\* display_steps: one row per step, the frames padded with "-" (<<>> here)
display_steps(trace, fc) ==
    [frame_columns |-> fc,
     rows |-> [j \in 1 .. Len(trace) |->
                 <<j, trace[j][1],
                   [c \in 1 .. (IF fc > Len(trace[j][2]) THEN fc ELSE Len(trace[j][2])) |->
                       IF c <= Len(trace[j][2]) THEN <<trace[j][2][c]>> ELSE <<>>],
                   trace[j][3]>>]]

\* ------------------------------------------------------------ compare_all
CompareOrder == <<"FIFO", "LRU", "OPTIMAL", "LFU">>

\* key=lambda x: x[1]
fault_key(x) == <<x[2]>>

\* best = min([("FIFO", fifo_faults), ...], key=lambda x: x[1])[0]
best_of(res) ==
    LET entries == [k \in 1 .. 4 |-> <<CompareOrder[k], res[CompareOrder[k]].faults>>]
    IN  entries[PyMinIndex([k \in 1 .. 4 |-> fault_key(entries[k])])][1]

\* The click: parse_input, then the first simulator call.
compare_all ==
    /\ handler = "idle"
    /\ outcome # "running"
    /\ LET in == parse_input(frame_entry, ref_entry)
       IN  IF ~in.ok
           THEN /\ errors_shown' = TRUE
                /\ UNCHANGED <<simVars, first, frame_entry, ref_entry, handler, results,
                               tree, log_text, compare_tree, algo_label, result_label>>
           ELSE /\ simulator_call("FIFO", in.pages, in.frame_count)
                /\ handler' = "compare_all"
                /\ results' = <<>>
                /\ UNCHANGED <<first, frame_entry, ref_entry, tree, log_text, compare_tree,
                               algo_label, result_label, errors_shown>>

\* A simulator has returned to compare_all: bind its result and call the
\* next one.
compare_all_next ==
    /\ handler = "compare_all"
    /\ outcome = "returned"
    /\ algo # "LFU"
    /\ results' = DictSet(results, algo, Returned)
    /\ simulator_call(CompareOrder[ListIndex(CompareOrder, algo) + 1], pages, frame_count)
    /\ UNCHANGED <<first, frame_entry, ref_entry, handler, tree, log_text, compare_tree,
                   algo_label, result_label, errors_shown>>

\* The last simulator has returned: the rest of compare_all.
compare_all_show ==
    /\ handler = "compare_all"
    /\ outcome = "returned"
    /\ algo = "LFU"
    /\ LET res == DictSet(results, algo, Returned)
           total == Len(pages)
       IN  /\ results' = res
           /\ tree' = display_steps(res["FIFO"].steps, frame_count)
           /\ log_text' = res["FIFO"].log
           /\ algo_label' = Label("Algorithm Output: FIFO (Comparison Mode)", <<>>)
           /\ compare_tree' = [k \in 1 .. 4 |->
                                 <<CompareOrder[k], res[CompareOrder[k]].hits,
                                   res[CompareOrder[k]].faults,
                                   hit_ratio(res[CompareOrder[k]].hits, total)>>]
           /\ result_label' = Label("Best Algorithm (Minimum Faults):", <<best_of(res)>>)
    /\ handler' = "idle"
    /\ UNCHANGED <<simVars, first, frame_entry, ref_entry, errors_shown>>

\* ------------------------------------------------------------ run buttons
\* A handler returns: the locals of the simulators it called are gone.
locals_discarded ==
    /\ algo' = "none"
    /\ outcome' = "none"
    /\ exc' = "none"
    /\ pages' = <<>>
    /\ frame_count' = 0
    /\ i' = 0
    /\ frames' = <<>>
    /\ queue_index' = 0
    /\ recent' = <<>>
    /\ freq' = <<>>
    /\ time' = <<>>
    /\ faults' = 0
    /\ hits' = 0
    /\ steps' = <<>>
    /\ log' = <<>>

\* The click of one of the four run buttons: parse_input, then the call.
run_click(a) ==
    /\ handler = "idle"
    /\ outcome # "running"
    /\ LET in == parse_input(frame_entry, ref_entry)
       IN  IF ~in.ok
           THEN /\ errors_shown' = TRUE
                /\ UNCHANGED <<simVars, first, frame_entry, ref_entry, handler, results,
                               tree, log_text, compare_tree, algo_label, result_label>>
           ELSE /\ simulator_call(a, in.pages, in.frame_count)
                /\ handler' = "run"
                /\ UNCHANGED <<first, frame_entry, ref_entry, results, tree, log_text,
                               compare_tree, algo_label, result_label, errors_shown>>

run_fifo == run_click("FIFO")
run_lru == run_click("LRU")
run_optimal == run_click("OPTIMAL")
run_lfu == run_click("LFU")

\* The simulator has returned to its run handler: the rest of the handler,
\* whose locals are gone when it returns.
run_show ==
    /\ handler = "run"
    /\ outcome = "returned"
    /\ LET r == Returned
           total == Len(pages)
       IN  /\ tree' = display_steps(r.steps, frame_count)
           /\ log_text' = r.log
           /\ algo_label' = Label("Algorithm Output:", <<algo>>)
           /\ result_label' = Label("Total Pages: | Hits: | Faults: | Hit Ratio: %",
                                    <<total, r.hits, r.faults, hit_ratio(r.hits, total)>>)
    /\ handler' = "idle"
    /\ results' = <<>>
    /\ locals_discarded
    /\ UNCHANGED <<first, frame_entry, ref_entry, compare_tree, errors_shown>>

\* ------------------------------------------------------------- show_graph
show_graph ==
    /\ handler = "idle"
    /\ outcome # "running"
    /\ LET in == parse_input(frame_entry, ref_entry)
       IN  IF ~in.ok
           THEN /\ errors_shown' = TRUE
                /\ UNCHANGED <<simVars, first, frame_entry, ref_entry, handler, results,
                               tree, log_text, compare_tree, algo_label, result_label>>
           ELSE /\ simulator_call("FIFO", in.pages, in.frame_count)
                /\ handler' = "show_graph"
                /\ results' = <<>>
                /\ UNCHANGED <<first, frame_entry, ref_entry, tree, log_text, compare_tree,
                               algo_label, result_label, errors_shown>>

\* A simulator has returned to show_graph: keep its fault count and call
\* the next one.
show_graph_next ==
    /\ handler = "show_graph"
    /\ outcome = "returned"
    /\ algo # "LFU"
    /\ results' = DictSet(results, algo, [faults |-> faults])
    /\ simulator_call(CompareOrder[ListIndex(CompareOrder, algo) + 1], pages, frame_count)
    /\ UNCHANGED <<first, frame_entry, ref_entry, handler, tree, log_text, compare_tree,
                   algo_label, result_label, errors_shown>>

\* The last simulator has returned: the bar chart is drawn in a window of
\* its own, no widget of the main window is written, and the handler's
\* locals are gone when it returns.
show_graph_show ==
    /\ handler = "show_graph"
    /\ outcome = "returned"
    /\ algo = "LFU"
    /\ handler' = "idle"
    /\ results' = <<>>
    /\ locals_discarded
    /\ UNCHANGED <<first, frame_entry, ref_entry, tree, log_text, compare_tree,
                   algo_label, result_label, errors_shown>>

\* ------------------------------------------------------- run_for_3_frames
\* The click: the check of the reference string, the frame entry set to
\* "3", then compare_all up to its first simulator call.
run_for_3_frames ==
    /\ handler = "idle"
    /\ outcome # "running"
    /\ IF strip(ref_entry) = <<>>
       THEN /\ errors_shown' = TRUE
            /\ UNCHANGED <<simVars, first, frame_entry, ref_entry, handler, results,
                           tree, log_text, compare_tree, algo_label, result_label>>
       ELSE /\ frame_entry' = <<"3">>
            /\ LET in == parse_input(frame_entry', ref_entry)
               IN  IF ~in.ok
                   THEN /\ errors_shown' = TRUE
                        /\ UNCHANGED <<simVars, first, ref_entry, handler, results,
                                       tree, log_text, compare_tree, algo_label,
                                       result_label>>
                   ELSE /\ simulator_call("FIFO", in.pages, in.frame_count)
                        /\ handler' = "compare_all"
                        /\ results' = <<>>
                        /\ UNCHANGED <<first, ref_entry, tree, log_text, compare_tree,
                                       algo_label, result_label, errors_shown>>

\* ----------------------------------------------------------- input sets
\* What a user may have typed into the two entries.
RECURSIVE Join(_)
Join(words) ==
    IF words = <<>> THEN <<>>
    ELSE IF Len(words) = 1 THEN words[1]
    ELSE words[1] \o <<" ">> \o Join(Tail(words))

PageWords == {<<Digits[k + 1]>> : k \in 0 .. (NumPages - 1)} \cup {<<"x">>}

RefTexts ==
    {Join(ws) : ws \in SeqsUpTo(PageWords, GuiMaxLen)}
    \cup {Join([k \in 1 .. Len(Scenario1Pages) |-> <<Digits[Scenario1Pages[k] + 1]>>]),
          Join([k \in 1 .. Len(TiePages) |-> <<Digits[TiePages[k] + 1]>>]),
          <<" ", "1", " ", " ", "2", " ">>,
          <<"-", "1", " ", "0", " ", "-", "1", " ", "1", "2">>}

FrameTexts ==
    {<<Digits[k + 1]>> : k \in 0 .. MaxFrames}
    \cup {<<>>, <<"x">>, <<"-", "1">>, <<" ", "2", " ">>, <<"1", "0">>}

\* ------------------------------------------------------------------ Init
NoCall ==
    /\ algo = "none"
    /\ outcome = "none"
    /\ exc = "none"
    /\ pages = <<>>
    /\ frame_count = 0
    /\ i = 0
    /\ frames = <<>>
    /\ queue_index = 0
    /\ recent = <<>>
    /\ freq = <<>>
    /\ time = <<>>
    /\ faults = 0
    /\ hits = 0
    /\ steps = <<>>
    /\ log = <<>>

\* The window as the module-level code builds it.
WidgetsBuilt ==
    /\ handler = "idle"
    /\ results = <<>>
    /\ tree = [frame_columns |-> 0, rows |-> <<>>]
    /\ log_text = <<>>
    /\ compare_tree = <<>>
    /\ algo_label = Label("Algorithm Output:", <<>>)
    /\ result_label = Label("", <<>>)
    /\ errors_shown = FALSE

\* One direct call of one simulator on one input.
Init ==
    /\ algo \in Algorithms
    /\ pages \in RefStrings
    /\ frame_count \in FrameCounts
    /\ outcome = "none"
    /\ exc = "none"
    /\ i = 0
    /\ frames = <<>>
    /\ queue_index = 0
    /\ recent = <<>>
    /\ freq = <<>>
    /\ time = <<>>
    /\ faults = 0
    /\ hits = 0
    /\ steps = <<>>
    /\ log = <<>>
    /\ WidgetsBuilt
    /\ frame_entry = <<>>
    /\ ref_entry = <<>>
    /\ first = [set |-> "off"]

Call ==
    /\ handler = "idle"
    /\ outcome = "none"
    /\ simulator_call(algo, pages, frame_count)
    /\ UNCHANGED <<first, guiVars>>

Next ==
    \/ Call
    \/ fifo_page_replacement
    \/ lru_page_replacement
    \/ optimal_page_replacement
    \/ lfu_page_replacement
    \/ simulator_return

Spec == Init /\ [][Next]_vars

\* Sessions of direct calls that remember their first completed call.
InitRepeat ==
    /\ NoCall
    /\ WidgetsBuilt
    /\ frame_entry = <<>>
    /\ ref_entry = <<>>
    /\ first = [set |-> "empty"]

CallRepeat ==
    /\ handler = "idle"
    /\ outcome # "running"
    /\ \E a \in Algorithms, p \in RepRefStrings, fc \in RepFrameCounts : simulator_call(a, p, fc)
    /\ first' = IF first.set = "done" /\ first.later < MaxLater
                THEN [first EXCEPT !.later = first.later + 1]
                ELSE first
    /\ UNCHANGED guiVars

NextRepeat ==
    \/ CallRepeat
    \/ fifo_page_replacement
    \/ lru_page_replacement
    \/ optimal_page_replacement
    \/ lfu_page_replacement
    \/ simulator_return

SpecRepeat == InitRepeat /\ [][NextRepeat]_vars

\* The window with something typed into the entries, and its buttons.
InitGui ==
    /\ NoCall
    /\ WidgetsBuilt
    /\ frame_entry \in FrameTexts
    /\ ref_entry \in RefTexts
    /\ first = [set |-> "off"]

NextGui ==
    \/ compare_all
    \/ compare_all_next
    \/ compare_all_show
    \/ fifo_page_replacement
    \/ lru_page_replacement
    \/ optimal_page_replacement
    \/ lfu_page_replacement
    \/ simulator_return

SpecGui == InitGui /\ [][NextGui]_vars

\* The window with all its buttons, the user editing the entries between
\* clicks. The error box is modal: it is closed before an entry is edited.
WinRefTexts ==
    {Join(ws) : ws \in SeqsUpTo({<<"1">>, <<"2">>, <<"x">>}, WinMaxLen)}
    \cup {<<"1", " ", "x">>, <<"1", " ", "1">>}
WinFrameTexts == {<<>>, <<"0">>, <<"2">>, <<"x">>, <<"-", "1">>}

edit_frame_entry ==
    /\ handler = "idle"
    /\ outcome # "running"
    /\ \E text \in WinFrameTexts : text # frame_entry /\ frame_entry' = text
    /\ errors_shown' = FALSE
    /\ UNCHANGED <<simVars, first, ref_entry, handler, results, tree, log_text,
                   compare_tree, algo_label, result_label>>

edit_ref_entry ==
    /\ handler = "idle"
    /\ outcome # "running"
    /\ \E text \in WinRefTexts : text # ref_entry /\ ref_entry' = text
    /\ errors_shown' = FALSE
    /\ UNCHANGED <<simVars, first, frame_entry, handler, results, tree, log_text,
                   compare_tree, algo_label, result_label>>

InitWindow ==
    /\ NoCall
    /\ WidgetsBuilt
    /\ frame_entry = <<>>
    /\ ref_entry = <<>>
    /\ first = [set |-> "off"]

NextWindow ==
    \/ edit_frame_entry
    \/ edit_ref_entry
    \/ run_fifo
    \/ run_lru
    \/ run_optimal
    \/ run_lfu
    \/ run_show
    \/ compare_all
    \/ compare_all_next
    \/ compare_all_show
    \/ show_graph
    \/ show_graph_next
    \/ show_graph_show
    \/ run_for_3_frames
    \/ fifo_page_replacement
    \/ lru_page_replacement
    \/ optimal_page_replacement
    \/ lfu_page_replacement
    \/ simulator_return

SpecWindow == InitWindow /\ [][NextWindow]_vars

\* ================================================================ claims
ValidInput == frame_count >= 1 /\ Len(pages) >= 1
Called == outcome \in {"running", "returned"}
StepsWith(status) == {j \in 1 .. Len(steps) : steps[j][3] = status}
AllReturned == handler = "idle" /\ DOMAIN results = Algorithms

\* C1: on a valid input, for each simulator, the hit and fault counts equal
\* the numbers of HIT and FAULT step records, and at return their sum is
\* the length of the reference string.
C1_HitsPlusFaults ==
    ValidInput /\ Called =>
        /\ hits = Cardinality(StepsWith("HIT"))
        /\ faults = Cardinality(StepsWith("FAULT"))
        /\ hits + faults = Len(steps)
        /\ outcome = "returned" => hits + faults = Len(pages)

C1_Witness ==
    /\ ValidInput
    /\ outcome = "returned"
    /\ algo = "LFU"
    /\ hits >= 2
    /\ faults >= 3

\* C2: on a valid input no step record's frame snapshot is longer than
\* frame_count.
C2_SnapshotWithinFrames ==
    ValidInput /\ Called => \A j \in 1 .. Len(steps) : Len(Snapshot(j)) <= frame_count

C2_Witness ==
    /\ ValidInput
    /\ outcome = "returned"
    /\ frame_count = 2
    /\ \E j \in 1 .. Len(log) : log[j].replaced # <<>> /\ Len(Snapshot(j)) = frame_count

\* C3: on the same valid input OPTIMAL's fault count is at most the fault
\* count of FIFO, of LRU and of LFU.
C3_OptimalLowerBound ==
    AllReturned => \A a \in Algorithms : results["OPTIMAL"].faults <= results[a].faults

C3_Witness ==
    /\ AllReturned
    /\ \A a \in Algorithms \ {"OPTIMAL"} : results["OPTIMAL"].faults < results[a].faults

\* C4: on a valid input the first step record is a FAULT, and a reference
\* string of length 1 returns exactly one fault and no hit.
C4_FirstAccessFaults ==
    ValidInput /\ Called =>
        /\ Len(steps) >= 1 => steps[1][3] = "FAULT"
        /\ outcome = "returned" /\ Len(pages) = 1 =>
               faults = 1 /\ hits = 0 /\ Len(steps) = 1

C4_Witness ==
    /\ outcome = "returned"
    /\ Len(pages) = 1
    /\ frame_count = 2
    /\ algo = "OPTIMAL"
    /\ Len(steps) = 1

\* C5: a step record's snapshot, once appended, reads the same after every
\* later step of the run, and the snapshot appended by an iteration is the
\* frame list as that iteration left it.
C5_SnapshotsFrozen ==
    [][/\ \A j \in 1 .. Len(steps) : Len(steps') >= j => Snapshot(j)' = Snapshot(j)
       /\ \A n \in 1 .. (Len(steps) + 1) :
              Len(steps') = n /\ n = Len(steps) + 1 => Snapshot(n)' = frames']_vars

C5_Witness ==
    /\ outcome = "returned"
    /\ Len(steps) >= 3
    /\ Snapshot(Len(steps) - 1) # frames
    /\ \E j \in 1 .. Len(steps) : Len(Snapshot(j)) = Len(frames) /\ Snapshot(j) # frames

\* C6: a call that returns on the input of the session's first completed
\* call, of the same simulator, returns the same trace, counts and log,
\* whatever calls were made in between.
C6_RepeatedCallAgrees ==
    /\ first.set = "done"
    /\ outcome = "returned"
    /\ algo = first.algo
    /\ pages = first.pages
    /\ frame_count = first.frame_count
    => Returned = first.ret

C6_Witness ==
    /\ first.set = "done"
    /\ first.later = MaxLater
    /\ outcome = "returned"
    /\ algo = first.algo
    /\ pages = first.pages
    /\ frame_count = first.frame_count
    /\ \E j \in 1 .. Len(log) : log[j].replaced # <<>>

\* C7: FIFO on [7,0,1,2,0,3,0,4] with 3 frames.
Scenario1Returned ==
    /\ algo = "FIFO"
    /\ pages = Scenario1Pages
    /\ frame_count = 3
    /\ outcome = "returned"

\* C7 as claimed: the run yields 6 faults and 2 hits.
C7_Scenario1AsClaimed == Scenario1Returned => faults = 6 /\ hits = 2

\* C7 as amended: the run yields 7 faults and 1 hit (only the first repeat
\* of page 0 hits; page 0 has left its slot before the second repeat), and
\* the snapshots follow the cursor through slots 0, 1, 2, 0.
C7_Scenario1Fifo ==
    Scenario1Returned =>
        /\ faults = 7
        /\ hits = 1
        /\ [j \in 1 .. Len(steps) |-> steps[j][3]] =
               <<"FAULT", "FAULT", "FAULT", "FAULT", "HIT", "FAULT", "FAULT", "FAULT">>
        /\ [j \in 1 .. Len(steps) |-> Snapshot(j)] =
               << <<7>>, <<7, 0>>, <<7, 0, 1>>, <<2, 0, 1>>, <<2, 0, 1>>,
                  <<2, 3, 1>>, <<2, 3, 0>>, <<4, 3, 0>> >>
        /\ queue_index = 1

C7_Witness == Scenario1Returned /\ Len(steps) = Len(Scenario1Pages)

\* C8: a call with frame_count <= 0 and a non-empty reference string ends
\* in an InvalidFrameCount failure with no step record produced.
C8_InvalidFrameCountRejected ==
    frame_count <= 0 /\ Len(pages) >= 1 /\ outcome \in {"returned", "raised"} =>
        outcome = "raised" /\ exc = "InvalidFrameCount" /\ steps = <<>>

\* C9: a call with an empty reference string ends in an
\* EmptyReferenceString failure instead of returning an empty trace.
C9_EmptyReferenceStringRejected ==
    Len(pages) = 0 /\ outcome \in {"returned", "raised"} =>
        outcome = "raised" /\ exc = "EmptyReferenceString"

\* C10: the comparison names every algorithm whose fault count is the
\* minimum of the four.
C10_AllTiedBestNamed ==
    AllReturned =>
        {result_label.args[k] : k \in 1 .. Len(result_label.args)} =
            {a \in Algorithms : \A b \in Algorithms : results[a].faults <= results[b].faults}

\* C11: on a valid input no step record's frame snapshot holds a page
\* identifier more than once.
NoDuplicates(lst) == \A a, b \in 1 .. Len(lst) : a # b => lst[a] # lst[b]

C11_SnapshotsDistinct ==
    ValidInput /\ Called => \A j \in 1 .. Len(steps) : NoDuplicates(Snapshot(j))

C11_Witness ==
    /\ ValidInput
    /\ outcome = "returned"
    /\ algo = "LRU"
    /\ Len(frames) = 3
    /\ hits >= 1
    /\ \E j \in 1 .. Len(log) : log[j].replaced # <<>>

\* The step at which page p, resident now, was loaded: its latest FAULT.
LoadStep(p) ==
    CHOOSE j \in 1 .. Len(steps) :
        /\ steps[j][1] = p /\ steps[j][3] = "FAULT"
        /\ \A k \in (j + 1) .. Len(steps) : ~(steps[k][1] = p /\ steps[k][3] = "FAULT")

\* An iteration of simulator a, on a valid input, that appends a step of
\* the given status, the frame list being full or not before it.
StepAppended(a, status, full) ==
    /\ algo = a
    /\ ValidInput
    /\ outcome = "running"
    /\ Len(steps') = Len(steps) + 1
    /\ steps'[Len(steps) + 1][3] = status
    /\ full <=> Len(frames) = frame_count

\* C12: FIFO evicts, on a fault with full frames, the page in the cursor
\* slot, which is the resident page loaded earliest, and advances the
\* cursor by one modulo frame_count; hits and loads into free room leave
\* the cursor alone.
C12_FifoCursor ==
    [][/\ StepAppended("FIFO", "FAULT", TRUE) =>
            /\ log'[Len(log) + 1].replaced = <<frames[queue_index + 1]>>
            /\ frames' = [frames EXCEPT ![queue_index + 1] = pages[i + 1]]
            /\ \A k \in 1 .. Len(frames) :
                   LoadStep(frames[queue_index + 1]) <= LoadStep(frames[k])
            /\ queue_index' = (queue_index + 1) % frame_count
       /\ StepAppended("FIFO", "FAULT", FALSE) => queue_index' = queue_index
       /\ StepAppended("FIFO", "HIT", TRUE) \/ StepAppended("FIFO", "HIT", FALSE) =>
            queue_index' = queue_index]_vars

\* FIFO has evicted a page that was hit after it was loaded, and the
\* cursor has wrapped around.
C12_Witness ==
    /\ algo = "FIFO"
    /\ ValidInput
    /\ outcome = "returned"
    /\ frame_count = 2
    /\ queue_index = 0
    /\ \E j, k \in 1 .. Len(steps) :
          /\ j < k
          /\ steps[j][3] = "HIT"
          /\ log[k].replaced = <<steps[j][1]>>
          /\ \A m \in j .. (k - 1) : steps[m][3] = "HIT" \/ steps[m][1] # steps[j][1]
    /\ Cardinality({k \in 1 .. Len(log) : log[k].replaced # <<>>}) >= 2

\* The position in the reference string of the latest access to page p
\* among the accesses already processed.
LastAccess(p) ==
    CHOOSE j \in 1 .. i : pages[j] = p /\ \A k \in (j + 1) .. i : pages[k] # p

\* The victim an iteration has just logged.
Victim == log'[Len(log) + 1].replaced

\* C13: LRU evicts, on a fault with full frames, the resident page whose
\* latest access (hit or load) is the oldest among the resident pages.
C13_LruVictim ==
    [][StepAppended("LRU", "FAULT", TRUE) =>
          /\ Len(Victim) = 1
          /\ In(Victim[1], frames)
          /\ \A k \in 1 .. Len(frames) : LastAccess(Victim[1]) <= LastAccess(frames[k])
          /\ ~In(Victim[1], frames')]_vars

\* LRU has evicted the page of the second slot because the page of the
\* first slot was hit in between, and an evicted page was loaded again by a
\* later eviction.
C13_Witness ==
    /\ algo = "LRU"
    /\ ValidInput
    /\ outcome = "returned"
    /\ \E j, k \in 1 .. Len(steps) :
          /\ j < k
          /\ steps[j][3] = "HIT"
          /\ Len(Snapshot(k - 1)) = 2
          /\ log[k].replaced = <<Snapshot(k - 1)[2]>>
    /\ \E j, k \in 1 .. Len(steps) :
          j < k /\ log[j].replaced = <<steps[k][1]>> /\ log[k].replaced # <<>>

\* Page p is referenced after access number k (1-based) of the string.
OccursAfter(p, k) == \E j \in (k + 1) .. Len(pages) : pages[j] = p
NextOccurrence(p, k) ==
    CHOOSE j \in (k + 1) .. Len(pages) : pages[j] = p /\ \A m \in (k + 1) .. (j - 1) : pages[m] # p

\* C14: OPTIMAL evicts, on a fault with full frames, the first resident
\* page (in frame order) that is not referenced again if there is one, and
\* otherwise the resident page whose next reference is farthest away.
C14_OptimalVictim ==
    [][StepAppended("OPTIMAL", "FAULT", TRUE) =>
          LET gone == {k \in 1 .. Len(frames) : ~OccursAfter(frames[k], i + 1)}
          IN  /\ Len(Victim) = 1
              /\ gone # {} =>
                    \E k \in gone : Victim[1] = frames[k] /\ \A m \in gone : k <= m
              /\ gone = {} =>
                    /\ In(Victim[1], frames)
                    /\ \A k \in 1 .. Len(frames) :
                          NextOccurrence(frames[k], i + 1) <= NextOccurrence(Victim[1], i + 1)]_vars

\* OPTIMAL has evicted once with every resident page still to come and
\* once with two resident pages never referenced again.
C14_Witness ==
    /\ algo = "OPTIMAL"
    /\ ValidInput
    /\ outcome = "returned"
    /\ \E k \in 2 .. Len(steps) :
          /\ log[k].replaced # <<>>
          /\ \A c \in 1 .. Len(Snapshot(k - 1)) : OccursAfter(Snapshot(k - 1)[c], k)
    /\ \E k \in 2 .. Len(steps) :
          /\ log[k].replaced # <<>>
          /\ Cardinality({c \in 1 .. Len(Snapshot(k - 1)) : ~OccursAfter(Snapshot(k - 1)[c], k)}) >= 2

\* The number of accesses to resident page p since it was loaded.
AccessesSinceLoad(p) == Cardinality({j \in LoadStep(p) .. Len(steps) : steps[j][1] = p})

\* C15: LFU evicts, on a fault with full frames, a resident page of the
\* lowest frequency and, among those, the one touched longest ago; so no
\* resident page of strictly higher frequency than another is evicted, and
\* page 2 is never the victim on [1,2,2,3,1,4] with 2 frames.
C15_LfuVictim ==
    [][/\ StepAppended("LFU", "FAULT", TRUE) =>
            /\ Len(Victim) = 1
            /\ In(Victim[1], frames)
            /\ \A k \in 1 .. Len(frames) :
                  /\ AccessesSinceLoad(Victim[1]) <= AccessesSinceLoad(frames[k])
                  /\ AccessesSinceLoad(Victim[1]) = AccessesSinceLoad(frames[k]) =>
                        LastAccess(Victim[1]) <= LastAccess(frames[k])
       /\ algo = "LFU" /\ pages = Scenario3Pages /\ frame_count = 2 =>
            \A k \in 1 .. Len(log') : log'[k].replaced # <<2>>]_vars

C15_Witness ==
    /\ algo = "LFU"
    /\ pages = Scenario3Pages
    /\ frame_count = 2
    /\ outcome = "returned"
    /\ [k \in 1 .. Len(log) |-> log[k].replaced] = << <<>>, <<>>, <<>>, <<1>>, <<3>>, <<1>> >>
    /\ frames = <<4, 2>>

Resident == {frames[k] : k \in 1 .. Len(frames)}

\* C16: in LFU, after every processed access, the keys of freq and of time
\* are exactly the resident pages, freq[p] is the number of accesses to p
\* since its latest load, and time[p] is the index of its latest access.
C16_LfuBookkeeping ==
    algo = "LFU" /\ ValidInput /\ Called =>
        /\ DOMAIN freq = Resident
        /\ DOMAIN time = Resident
        /\ \A p \in Resident :
              /\ freq[p] = AccessesSinceLoad(p)
              /\ time[p] = LastAccess(p) - 1

\* A page hit during an earlier residency is resident again with
\* frequency 1.
C16_Witness ==
    /\ algo = "LFU"
    /\ ValidInput
    /\ outcome = "returned"
    /\ \E j, k, m \in 1 .. Len(steps) :
          /\ j < k /\ k < m
          /\ steps[j][3] = "HIT"
          /\ log[k].replaced = <<steps[j][1]>>
          /\ steps[m][1] = steps[j][1] /\ steps[m][3] = "FAULT"
          /\ steps[j][1] \in Resident
          /\ freq[steps[j][1]] = 1

\* The frame set immediately before access j: the snapshot of step j - 1.
FramesBefore(j) == IF j = 1 THEN <<>> ELSE Snapshot(j - 1)

\* C17: the trace has one step record per processed access, in input
\* order; record j is a HIT exactly when pages[j] was in the frame set just
\* before access j, and its snapshot always contains pages[j].
C17_OneRecordPerAccess ==
    ValidInput /\ Called =>
        /\ Len(steps) = i
        /\ outcome = "returned" => Len(steps) = Len(pages)
        /\ \A j \in 1 .. Len(steps) :
              /\ steps[j][1] = pages[j]
              /\ steps[j][3] \in {"HIT", "FAULT"}
              /\ steps[j][3] = "HIT" <=> In(pages[j], FramesBefore(j))
              /\ In(pages[j], Snapshot(j))

C17_Witness ==
    /\ ValidInput
    /\ outcome = "returned"
    /\ algo = "OPTIMAL"
    /\ Len(steps) >= 5
    /\ \E j, k \in 2 .. Len(steps) :
          /\ steps[j][3] = "HIT"
          /\ steps[k][3] = "FAULT" /\ log[k].replaced # <<>>

\* C18: in all four simulators a HIT leaves the frame list as it was: the
\* snapshot of the HIT step equals the snapshot of the step before, slot
\* for slot, and FIFO's cursor and the fault count do not move.
C18_HitKeepsFrames ==
    [][\A a \in Algorithms :
          StepAppended(a, "HIT", TRUE) \/ StepAppended(a, "HIT", FALSE) =>
              /\ frames' = frames
              /\ \A n \in 1 .. (Len(steps) + 1) :
                    n = Len(steps) + 1 =>
                        Snapshot(n)' = (IF Len(steps) = 0 THEN <<>> ELSE Snapshot(Len(steps)))
              /\ queue_index' = queue_index
              /\ faults' = faults
              /\ hits' = hits + 1]_vars

\* A hit on the page of the first of several slots, after which the
\* bookkeeping of LFU has changed and the frames have not.
C18_Witness ==
    /\ algo = "LFU"
    /\ ValidInput
    /\ outcome = "running"
    /\ Len(steps) >= 3
    /\ steps[Len(steps)][3] = "HIT"
    /\ Len(frames) >= 2
    /\ frames[1] = steps[Len(steps)][1]
    /\ freq[frames[1]] = 2
    /\ Snapshot(Len(steps)) = Snapshot(Len(steps) - 1)

\* C20: in all four simulators a FAULT changes the frame list in exactly one
\* position. With free room the new page is appended and every existing slot
\* keeps its page; with a full list the slot of the victim holds the new page
\* and every other slot holds the same page at the same index as before.
C20_FaultChangesOneSlot ==
    [][\A a \in Algorithms :
          /\ StepAppended(a, "FAULT", FALSE) =>
                /\ Len(frames) < frame_count
                /\ frames' = Append(frames, pages[i + 1])
                /\ log'[Len(log) + 1].replaced = <<>>
          /\ StepAppended(a, "FAULT", TRUE) =>
                /\ Len(frames') = Len(frames)
                /\ Len(Victim) = 1
                /\ \E idx \in 1 .. Len(frames) :
                      /\ frames[idx] = Victim[1]
                      /\ frames'[idx] = pages[i + 1]
                      /\ frames'[idx] # frames[idx]
                      /\ \A k \in (1 .. Len(frames)) \ {idx} : frames'[k] = frames[k]]_vars

\* A call has filled three frames one by one and has then replaced the page
\* of a slot that is not the last one, the pages after it staying in place.
C20_Witness ==
    /\ ValidInput
    /\ frame_count = 3
    /\ \E j \in 4 .. Len(steps) : \E idx \in 1 .. 2 :
          /\ Len(Snapshot(3)) = 3
          /\ Snapshot(1) = SubSeq(Snapshot(3), 1, 1)
          /\ Snapshot(2) = SubSeq(Snapshot(3), 1, 2)
          /\ Len(Snapshot(j - 1)) = 3
          /\ steps[j][3] = "FAULT"
          /\ Snapshot(j)[idx] = steps[j][1]
          /\ Snapshot(j - 1)[idx] # steps[j][1]
          /\ \A k \in {1, 2, 3} \ {idx} : Snapshot(j)[k] = Snapshot(j - 1)[k]

\* C19: through the window a simulator is only ever invoked with
\* frame_count >= 1 and a non-empty list of integer pages, and a step of the
\* idle window that leaves in the entries texts which parse_input rejects
\* (a frame count that is no integer or is not positive, a reference string
\* without a token or with a token that is no integer) calls no simulator
\* and leaves the table, the log, the comparison rows and the two labels as
\* they were.
Rejected(frame_text, ref_text) ==
    LET fc == int(frame_text)
        words == split(ref_text)
    IN  \/ ~fc.ok
        \/ fc.value <= 0
        \/ words = <<>>
        \/ \E k \in 1 .. Len(words) : ~int(words[k]).ok

C19_RejectedInputCallsNothing ==
    [][/\ outcome' = "running" =>
             /\ frame_count' >= 1
             /\ Len(pages') >= 1
             /\ \A k \in 1 .. Len(pages') : pages'[k] \in Int
       /\ handler = "idle" /\ Rejected(frame_entry', ref_entry') =>
             /\ handler' = "idle"
             /\ UNCHANGED simVars
             /\ UNCHANGED <<tree, log_text, compare_tree, algo_label, result_label>>]_vars

\* A button was clicked on rejected texts, the error box was shown, and the
\* table, the log and the comparison rows of earlier runs are still there.
C19_Witness ==
    /\ handler = "idle"
    /\ errors_shown
    /\ Rejected(frame_entry, ref_entry)
    /\ strip(ref_entry) # <<>>
    /\ tree.rows # <<>>
    /\ log_text # <<>>
    /\ compare_tree # <<>>
    /\ algo_label = Label("Algorithm Output:", <<"LRU">>)

\* C21: when frame_count is at least the number of distinct pages of the
\* reference string, no simulator evicts a page: the four return the same
\* trace (the same page, snapshot and status at every step), no log line
\* names a replaced page, and each fault count is the number of distinct
\* pages.
DistinctPages(p) == {p[k] : k \in 1 .. Len(p)}

C21_RoomForAllPages ==
    AllReturned /\ frame_count >= Cardinality(DistinctPages(pages)) =>
        \A a \in Algorithms :
            /\ results[a].steps = results["FIFO"].steps
            /\ results[a].faults = Cardinality(DistinctPages(pages))
            /\ results[a].hits = Len(pages) - Cardinality(DistinctPages(pages))
            /\ \A j \in 1 .. Len(results[a].log) : results[a].log[j].replaced = <<>>

\* The comparison has run on a reference string of three distinct pages,
\* one of them accessed again, with exactly three frames.
C21_Witness ==
    /\ AllReturned
    /\ Cardinality(DistinctPages(pages)) = 3
    /\ frame_count = 3
    /\ Len(pages) = 4
    /\ results["LFU"].hits = 1
    /\ Len(results["OPTIMAL"].steps[4][2]) = 3

\* C22: in LRU the entry of an evicted page is removed from the recency
\* map, so after every processed access the keys of the map are exactly the
\* resident pages, the page just accessed being mapped to the current index.
C22_RecencyKeysAreResident ==
    algo = "LRU" /\ ValidInput /\ Called =>
        /\ DOMAIN recent = Resident
        /\ i >= 1 => recent[pages[i]] = i - 1

====
